---- MODULE Spec2Model ----
(***************************************************************************)
(* Model of the grade-statistics service of epl-notes-analysis-dashboard:  *)
(* the module-level table df of src/api/main.py and its query handlers     *)
(* (statistics, age bands, leaderboards, per-student queries), the loaders *)
(* of the service, the dashboard and the scripts, and the upload path of   *)
(* src/dashboard/app.py.                                                   *)
(*                                                                         *)
(* Encoding.  Categorical values (student_id, nom, departement, ...) are   *)
(* positive integers whose order stands for the lexicographic order of the *)
(* strings; Null (0) is a missing cell (NaN / None).  A note is an integer *)
(* in 0..20 or NoNote (NaN).  Every float the handlers compute (a mean, a  *)
(* rate, a variance) is kept exactly as a reduced fraction [num, den]; NaN *)
(* is the fraction with den = 0.                                           *)
(***************************************************************************)
EXTENDS Integers, Sequences, FiniteSets, TLC

VARIABLES
    df,               \* the module-level table of the process
    stableSort,       \* build: the single-column sort keeps the order of ties
    observedDefault,  \* build: groupby on a categorical shows observed groups only
    op, arg, result,  \* the request being answered and its response
    alone,            \* history: what each request returns on the table as loaded
    threads,          \* the requests the worker threads have in flight
    file,             \* the data file a loader reads
    mapping,          \* the dashboard's column selections
    frame,            \* the dashboard's frame during a run of the script
    pc                \* where the loading process stands

vars == <<df, stableSort, observedDefault, op, arg, result,
          alone, threads, file, mapping, frame, pc>>

\* the build, the dashboard run, the concurrent requests
build == <<stableSort, observedDefault>>
dashboard == <<file, mapping, frame, pc>>
workers == <<alone, threads>>

\* ------------------------------------------------------------------ bounds
MaxRows == 3
MaxLimit == 2

\* ------------------------------------------------------------ cell values
Null == 0
NoNote == -1
NoRank == 0

Range(s) == {s[i] : i \in 1..Len(s)}

Min2(a, b) == IF a <= b THEN a ELSE b

\* ------------------------------------------------------- exact arithmetic
RECURSIVE Gcd(_, _)
Gcd(a, b) == IF b = 0 THEN a ELSE Gcd(b, a % b)

NaN == [num |-> 0, den |-> 0]

IsNaN(x) == x.den = 0

\* the float n/d, d > 0, n >= 0
Ratio(n, d) == LET g == Gcd(n, d) IN [num |-> n \div g, den |-> d \div g]

\* a > b on floats: false as soon as one side is NaN
Gt(a, b) == ~IsNaN(a) /\ ~IsNaN(b) /\ a.num * b.den > b.num * a.den

RECURSIVE Sum(_)
Sum(s) == IF s = <<>> THEN 0 ELSE Head(s) + Sum(Tail(s))

Reverse(s) == [i \in 1..Len(s) |-> s[Len(s) + 1 - i]]

\* ------------------------------------------------------- Series reductions
NoteCol(t) == [i \in 1..Len(t) |-> t[i].note]

DropNa(notes) == SelectSeq(notes, LAMBDA x : x # NoNote)

\* variant: a missing cell counts as a note of 0
SeriesMean_ZeroFill(notes) ==
    IF Len(notes) = 0 THEN NaN ELSE Ratio(Sum(DropNa(notes)), Len(notes))

\* Series.mean(): NaN cells skipped, NaN for no value
SeriesMean(notes) ==
    LET v == DropNa(notes)
    IN IF Len(v) = 0 THEN NaN ELSE Ratio(Sum(v), Len(v))

\* Series.count() / agg "count": the non-null cells
SeriesCount(notes) == Len(DropNa(notes))

\* variant: the rate over the non-null cells only
PassRate_NonNull(notes) ==
    IF Len(DropNa(notes)) = 0 THEN NaN
    ELSE Ratio(100 * Cardinality({i \in 1..Len(notes) : notes[i] # NoNote /\ notes[i] >= 10}),
               Len(DropNa(notes)))

\* (x >= 10).mean() * 100: the comparison yields False on NaN, and the mean
\* of the boolean series runs over every cell of x
PassRate(notes) ==
    IF Len(notes) = 0 THEN NaN
    ELSE Ratio(100 * Cardinality({i \in 1..Len(notes) : notes[i] # NoNote /\ notes[i] >= 10}),
               Len(notes))

\* ascending sort of a sequence of numbers
RECURSIVE InsertInt(_, _)
InsertInt(x, s) ==
    IF s = <<>> THEN <<x>>
    ELSE IF Head(s) <= x THEN <<Head(s)>> \o InsertInt(x, Tail(s))
    ELSE <<x>> \o s

RECURSIVE SortInts(_)
SortInts(s) == IF s = <<>> THEN <<>> ELSE InsertInt(Head(s), SortInts(Tail(s)))

\* Series.quantile(qn/qd): linear interpolation between the order statistics
\* around position (n - 1) * q of the sorted non-null values
Quantile(notes, qn, qd) ==
    LET v == SortInts(DropNa(notes))
        h == (Len(v) - 1) * qn
        lo == h \div qd
        r == h % qd
    IN IF Len(v) = 0 THEN NaN
       ELSE IF r = 0 THEN Ratio(v[lo + 1], 1)
       ELSE Ratio(v[lo + 1] * (qd - r) + v[lo + 2] * r, qd)

\* Series.median()
SeriesMedian(notes) == Quantile(notes, 1, 2)

\* Series.min(), Series.max()
SeriesMin(notes) ==
    LET v == SortInts(DropNa(notes)) IN IF Len(v) = 0 THEN NaN ELSE Ratio(v[1], 1)

SeriesMax(notes) ==
    LET v == SortInts(DropNa(notes)) IN IF Len(v) = 0 THEN NaN ELSE Ratio(v[Len(v)], 1)

\* Series.std(): sample standard deviation (ddof = 1), NaN below two values.
\* The value kept is its square, (n * sum(x^2) - sum(x)^2) / (n * (n - 1)).
SeriesStd(notes) ==
    LET v == DropNa(notes)
        n == Len(v)
        sq == [i \in 1..n |-> v[i] * v[i]]
    IN IF n < 2 THEN NaN ELSE Ratio(n * Sum(sq) - Sum(v) * Sum(v), n * (n - 1))

\* round(x, 2): x to the nearest hundredth, halves to the even neighbour
Round2(x) ==
    IF IsNaN(x) THEN NaN
    ELSE LET t == 100 * x.num
             q == t \div x.den
             r == t % x.den
             up == 2 * r > x.den \/ (2 * r = x.den /\ q % 2 = 1)
         IN Ratio(IF up THEN q + 1 ELSE q, 100)

\* ------------------------------------------------------------- DataFrame ops
\* data[data[col] == v]: a missing cell equals nothing
FilterEq(t, col, v) == SelectSeq(t, LAMBDA r : r[col] # Null /\ r[col] = v)

\* "if value:" guards of the handlers: None and "" (0 here) mean no filter
OptFilter(t, col, v) == IF v # Null THEN FilterEq(t, col, v) ELSE t

KeyOf(r, cols) == [i \in 1..Len(cols) |-> r[cols[i]]]

HasNull(k) == \E i \in 1..Len(k) : k[i] = Null

\* lexicographic order on key tuples of equal length
LexLess(a, b) ==
    \E i \in 1..Len(a) : a[i] < b[i] /\ \A j \in 1..(i - 1) : a[j] = b[j]

LexLessEq(a, b) == a = b \/ LexLess(a, b)

RECURSIVE SortedKeys(_)
SortedKeys(S) ==
    IF S = {} THEN <<>>
    ELSE LET m == CHOOSE k \in S : \A o \in S : LexLessEq(k, o)
         IN <<m>> \o SortedKeys(S \ {m})

\* groupby(cols) with the defaults dropna=True, sort=True: rows with a
\* missing key cell belong to no group; groups come in ascending key order
GroupKeys(t, cols) ==
    LET S == {KeyOf(t[i], cols) : i \in 1..Len(t)}
    IN SortedKeys({k \in S : ~HasNull(k)})

GroupRows(t, cols, k) == SelectSeq(t, LAMBDA r : KeyOf(r, cols) = k)

KeyRecord(cols, k) == [c \in Range(cols) |-> k[CHOOSE i \in 1..Len(cols) : cols[i] = c]]

\* groupby(cols)["note"].mean().reset_index().rename(columns={"note": "moyenne"})
GroupMean(t, cols) ==
    LET ks == GroupKeys(t, cols)
    IN [i \in 1..Len(ks) |->
          KeyRecord(cols, ks[i]) @@ ("moyenne" :> SeriesMean(NoteCol(GroupRows(t, cols, ks[i]))))]

\* ------------------------------------------------------------------ ranking
\* rank(ascending=False, method="dense") of one partition, as a walk down the
\* distinct values in descending order; a NaN value keeps a NaN rank
RECURSIVE DenseWalk(_, _, _)
DenseWalk(values, x, r) ==
    LET top == CHOOSE v \in values : \A o \in values : ~Gt(o, v)
    IN IF top = x THEN r ELSE DenseWalk(values \ {top}, x, r + 1)

\* variant: competition ranking (method="min"), ties leave gaps
RankOf_Min(rows, pcols, i) ==
    LET part == {j \in 1..Len(rows) : KeyOf(rows[j], pcols) = KeyOf(rows[i], pcols)}
    IN IF IsNaN(rows[i].moyenne) THEN NoRank
       ELSE 1 + Cardinality({j \in part : Gt(rows[j].moyenne, rows[i].moyenne)})

RankOf(rows, pcols, i) ==
    LET part == {j \in 1..Len(rows) : KeyOf(rows[j], pcols) = KeyOf(rows[i], pcols)}
        values == {rows[j].moyenne : j \in {p \in part : ~IsNaN(rows[p].moyenne)}}
    IN IF IsNaN(rows[i].moyenne) THEN NoRank ELSE DenseWalk(values, rows[i].moyenne, 1)

\* classement["rang"] = ....rank(ascending=False, method="dense")
WithRang(rows, pcols) ==
    [i \in 1..Len(rows) |-> rows[i] @@ ("rang" :> RankOf(rows, pcols, i))]

\* .astype(int) raises on a NaN rank
AstypeIntRaises(rows) == \E i \in 1..Len(rows) : rows[i].rang = NoRank

RowLessEq(cols, a, b) == LexLessEq(KeyOf(a, cols), KeyOf(b, cols))

\* insertion of row x into the sorted rows s, after every row not greater
RECURSIVE InsertSorted(_, _, _)
InsertSorted(x, s, cols) ==
    IF s = <<>> THEN <<x>>
    ELSE IF RowLessEq(cols, Head(s), x) THEN <<Head(s)>> \o InsertSorted(x, Tail(s), cols)
    ELSE <<x>> \o s

\* stable sort on the columns cols: rows that compare equal keep their order
RECURSIVE StableSort(_, _)
StableSort(s, cols) ==
    IF s = <<>> THEN <<>>
    ELSE InsertSorted(s[Len(s)], StableSort(SubSeq(s, 1, Len(s) - 1), cols), cols)

\* sort_values(<one column>): the default kind is quicksort, which need not
\* keep the order of equal keys; what it does is fixed by the build
SortValuesOne(rows, col) ==
    IF stableSort THEN StableSort(rows, <<col>>) ELSE StableSort(Reverse(rows), <<col>>)

\* variant: sort on the last column (the rank) alone
SortValuesLex_LastOnly(rows, cols) == StableSort(rows, <<cols[Len(cols)]>>)

\* sort_values(<several columns>): a lexsort, stable
SortValuesLex(rows, cols) == StableSort(rows, cols)

SortValues(rows, cols) ==
    IF Len(cols) = 1 THEN SortValuesOne(rows, cols[1]) ELSE SortValuesLex(rows, cols)

\* DataFrame.head(n)
HeadRows(rows, n) == SubSeq(rows, 1, Min2(n, Len(rows)))

\* variant: head(n) of the whole frame instead of each group
GroupHead_Frame(rows, pcols, n) == HeadRows(rows, n)

\* groupby(pcols).head(n): the first n rows of each group, in frame order
GroupHead(rows, pcols, n) ==
    LET keep == {i \in 1..Len(rows) :
                   Cardinality({j \in 1..(i - 1) : KeyOf(rows[j], pcols) = KeyOf(rows[i], pcols)}) < n}
        Pick[i \in 0..Len(rows)] ==
            IF i = 0 THEN <<>>
            ELSE IF i \in keep THEN Append(Pick[i - 1], rows[i]) ELSE Pick[i - 1]
    IN Pick[Len(rows)]

\* ------------------------------------------------------------------ results
Ok(rows) == [status |-> "ok", rows |-> rows]
Raised == [status |-> "raise", rows |-> <<>>]
NotFound == [status |-> "error", rows |-> <<>>]

Args(a, b, l) == [f1 |-> a, f2 |-> b, limit |-> l]

\* -------------------------------------------------------------- leaderboards
\* the part the five leaderboard handlers share: group means, dense rank
\* within the partition columns, cast of the rank, sort
RankedFrame(data, gcols, pcols) ==
    LET c == WithRang(GroupMean(data, gcols), pcols)
    IN IF AstypeIntRaises(c) THEN Raised
       ELSE Ok(SortValues(c, pcols \o <<"rang">>))

GeneralCols == <<"student_id", "nom", "prenom", "departement", "filiere", "niveau">>

classement_general(limit) ==
    LET c == RankedFrame(df, GeneralCols, <<>>)
    IN IF c.status = "ok" /\ limit # Null THEN Ok(HeadRows(c.rows, limit)) ELSE c

classement_departement(departement, limit) ==
    LET data == OptFilter(df, "departement", departement)
        c == RankedFrame(data, <<"departement", "student_id", "nom", "prenom">>, <<"departement">>)
    IN IF c.status = "ok" /\ limit # Null
       THEN Ok(GroupHead(c.rows, <<"departement">>, limit)) ELSE c

\* the conditional filters of classement_filiere_niveau on its copy
filiere_niveau_filter(data, filiere, niveau) ==
    OptFilter(OptFilter(data, "filiere", filiere), "niveau", niveau)

\* the ranking of classement_filiere_niveau over its filtered copy
filiere_niveau_classement(data, limit) ==
    LET c == RankedFrame(data, <<"filiere", "niveau", "student_id", "nom", "prenom">>,
                         <<"filiere", "niveau">>)
    IN IF c.status = "ok" /\ limit # Null
       THEN Ok(GroupHead(c.rows, <<"filiere", "niveau">>, limit)) ELSE c

classement_filiere_niveau(filiere, niveau, limit) ==
    filiere_niveau_classement(filiere_niveau_filter(df, filiere, niveau), limit)

classement_ue(ue, limit) ==
    LET data == OptFilter(df, "ue", ue)
        c == RankedFrame(data, <<"ue", "student_id", "nom", "prenom">>, <<"ue">>)
    IN IF c.status = "ok" /\ limit # Null
       THEN Ok(GroupHead(c.rows, <<"ue">>, limit)) ELSE c

classement_top(n) ==
    LET c == RankedFrame(df, GeneralCols, <<>>)
    IN IF c.status = "ok" THEN Ok(HeadRows(c.rows, n)) ELSE c

\* --------------------------------------------------------------- statistics
stats_globales ==
    LET x == NoteCol(df)
    IN Ok(<<[moyenne |-> SeriesMean(x), mediane |-> SeriesMedian(x),
             ecart_type |-> SeriesStd(x), min |-> SeriesMin(x), max |-> SeriesMax(x),
             Q1 |-> Quantile(x, 1, 4), Q3 |-> Quantile(x, 3, 4),
             taux_reussite |-> PassRate(x)]>>)

stats_departement ==
    LET ks == GroupKeys(df, <<"departement">>)
    IN Ok([i \in 1..Len(ks) |->
             LET x == NoteCol(GroupRows(df, <<"departement">>, ks[i]))
             IN [departement |-> ks[i][1], moyenne |-> SeriesMean(x),
                 mediane |-> SeriesMedian(x), ecart_type |-> SeriesStd(x),
                 taux_reussite |-> PassRate(x)]])

stats_enseignant(enseignant) ==
    LET data == FilterEq(df, "enseignant", enseignant)
        x == NoteCol(data)
    IN Ok(<<[enseignant |-> enseignant, moyenne |-> SeriesMean(x),
             ecart_type |-> SeriesStd(x), taux_reussite |-> PassRate(x),
             nombre_notes |-> Len(data)]>>)

stats_ue(ue) ==
    LET x == NoteCol(FilterEq(df, "ue", ue))
    IN Ok(<<[ue |-> ue, moyenne |-> SeriesMean(x), ecart_type |-> SeriesStd(x),
             taux_reussite |-> PassRate(x)]>>)

stats_toutes_ues ==
    LET ks == GroupKeys(df, <<"ue">>)
    IN Ok([i \in 1..Len(ks) |->
             LET x == NoteCol(GroupRows(df, <<"ue">>, ks[i]))
             IN [ue |-> ks[i][1], moyenne |-> SeriesMean(x), mediane |-> SeriesMedian(x),
                 ecart_type |-> SeriesStd(x), min |-> SeriesMin(x), max |-> SeriesMax(x),
                 taux_reussite |-> PassRate(x), nombre_notes |-> SeriesCount(x)]])

\* ------------------------------------------------- the dashboard's indicators
\* round(sqrt(x), 2) of a variance x: the number k of hundredths with
\* (k - 1/2)^2 <= 10^4 * x < (k + 1/2)^2
RoundSqrt2(x) ==
    IF IsNaN(x) THEN NaN
    ELSE LET k == CHOOSE k \in 0..2000 :
                    /\ (k = 0 \/ (2 * k - 1) * (2 * k - 1) * x.den <= 40000 * x.num)
                    /\ 40000 * x.num < (2 * k + 1) * (2 * k + 1) * x.den
         IN Ratio(k, 100)

\* the five metrics of the global view over the notes of the filtered frame:
\* round(<statistic>, 2) if not notes.isna().all() else 0, and len(frame)
tab_global(notes) ==
    LET allna == DropNa(notes) = <<>>
        metric(x) == IF allna THEN Ratio(0, 1) ELSE x
    IN [moyenne |-> metric(Round2(SeriesMean(notes))),
        mediane |-> metric(Round2(SeriesMedian(notes))),
        ecart_type |-> metric(RoundSqrt2(SeriesStd(notes))),
        taux_reussite |-> metric(Round2(PassRate(notes))),
        nombre_notes |-> Len(notes)]

\* ----------------------------------------------------------------- age bands
AgeBins == <<17, 20, 23, 26, 30>>

NoAge == -1

\* variant: bands closed on the left (right=False)
cut_LeftClosed(age, bins) ==
    LET ids == Cardinality({i \in 1..Len(bins) : bins[i] <= age})
    IN IF age = NoAge \/ ids = 0 \/ ids = Len(bins) THEN Null ELSE ids

\* pd.cut(age, bins) with right=True: the band is the number of edges
\* strictly below the value (searchsorted, side "left"); no edge below, every
\* edge below, or a missing value give a missing band
cut(age, bins) ==
    LET ids == Cardinality({i \in 1..Len(bins) : bins[i] < age})
    IN IF age = NoAge \/ ids = 0 \/ ids = Len(bins) THEN Null ELSE ids

\* data["tranche_age"] = pd.cut(data["age"], bins=[17, 20, 23, 26, 30], ...)
tranche_age_column(data) ==
    [i \in 1..Len(data) |-> data[i] @@ ("tranche_age" :> cut(data[i].age, AgeBins))]

\* groupby("tranche_age") on the categorical column: with observed=False every
\* band has a row, with observed=True only the bands some record falls in;
\* which default applies depends on the pandas release
tranche_age_means(data) ==
    LET present == {data[i].tranche_age : i \in 1..Len(data)} \ {Null}
        bands == IF observedDefault THEN present ELSE 1..(Len(AgeBins) - 1)
        ks == SortedKeys({<<b>> : b \in bands})
    IN Ok([i \in 1..Len(ks) |->
             [tranche_age |-> ks[i][1],
              note |-> SeriesMean(NoteCol(GroupRows(data, <<"tranche_age">>, ks[i])))]])

stats_tranche_age == tranche_age_means(tranche_age_column(df))

\* ------------------------------------------------------------------ students
get_etudiant(student_id) ==
    LET data == FilterEq(df, "student_id", student_id)
        ks == GroupKeys(data, <<"ue">>)
    IN IF data = <<>> THEN NotFound
       ELSE Ok(<<[student_id |-> student_id,
                  informations |-> [c \in {"nom", "prenom", "departement", "filiere", "niveau"}
                                      |-> data[1][c]],
                  moyenne_generale |-> Round2(SeriesMean(NoteCol(data))),
                  nombre_total_notes |-> Len(data),
                  notes_par_ue |->
                      [i \in 1..Len(ks) |->
                         LET x == NoteCol(GroupRows(data, <<"ue">>, ks[i]))
                         IN [ue |-> ks[i][1], moyenne |-> SeriesMean(x),
                             nombre_notes |-> SeriesCount(x)]]]>>)

\* variant: no check for an empty selection
get_notes_etudiant_NoCheck(student_id) ==
    LET data == FilterEq(df, "student_id", student_id)
    IN Ok([i \in 1..Len(data) |->
             [ue |-> data[i].ue, enseignant |-> data[i].enseignant, note |-> data[i].note]])

get_notes_etudiant(student_id) ==
    LET data == FilterEq(df, "student_id", student_id)
    IN IF data = <<>> THEN NotFound
       ELSE Ok([i \in 1..Len(data) |->
                  [ue |-> data[i].ue, enseignant |-> data[i].enseignant, note |-> data[i].note]])

\* ----------------------------------------------------------- reference lists
\* sorted(column.unique().tolist()): the distinct cells, the missing one
\* included; sorted() raises when it compares a missing cell (a float) with
\* a string
ReferenceList(data, col) ==
    LET vals == {data[i][col] : i \in 1..Len(data)}
        ks == SortedKeys({<<v>> : v \in vals})
    IN IF Null \in vals /\ vals # {Null} THEN Raised
       ELSE Ok([i \in 1..Len(ks) |-> ks[i][1]])

get_departements == ReferenceList(df, "departement")

get_filieres(departement) == ReferenceList(OptFilter(df, "departement", departement), "filiere")

get_enseignants(departement) ==
    ReferenceList(OptFilter(df, "departement", departement), "enseignant")

get_ues(niveau) == ReferenceList(OptFilter(df, "niveau", niveau), "ue")

\* ------------------------------------------------------------ demographics
\* groupby("sexe")["note"].describe(): count, mean, std, min, quartiles, max
stats_genre ==
    LET ks == GroupKeys(df, <<"sexe">>)
    IN Ok([i \in 1..Len(ks) |->
             LET x == NoteCol(GroupRows(df, <<"sexe">>, ks[i]))
             IN [sexe |-> ks[i][1], count |-> SeriesCount(x), mean |-> SeriesMean(x),
                 std |-> SeriesStd(x), min |-> SeriesMin(x), q25 |-> Quantile(x, 1, 4),
                 q50 |-> Quantile(x, 1, 2), q75 |-> Quantile(x, 3, 4),
                 max |-> SeriesMax(x)]])

\* --------------------------------------------------------- the shared table
\* variant: the handlers that narrow or extend their frame do it on the
\* module-level frame itself (data = df, no copy)
TableAfter_InPlace(o, a) ==
    CASE o = "stats_tranche_age" -> tranche_age_column(df)
      [] o = "classement_departement" /\ a.f1 # Null ->
            SelectSeq(df, LAMBDA r : r.departement = a.f1)
      [] o = "classement_filiere_niveau" /\ a.f1 # Null ->
            SelectSeq(df, LAMBDA r : r.filiere = a.f1)
      [] o = "classement_ue" /\ a.f1 # Null -> SelectSeq(df, LAMBDA r : r.ue = a.f1)
      [] OTHER -> df

\* the module-level table once handler o has answered: no handler assigns df
\* or writes into it; those that add a column or filter conditionally work
\* on data = df.copy(), the others bind the selections they make to locals
TableAfter(o, a) == df

\* a handler runs to completion on one request and hands back its result
Respond(o, a, r) ==
    /\ op = "idle"
    /\ op' = o
    /\ arg' = a
    /\ result' = r
    /\ df' = TableAfter(o, a)
    /\ UNCHANGED <<build, workers, dashboard>>

\* ------------------------------------------------------------------ inputs
Default ==
    [student_id |-> 1, nom |-> 1, prenom |-> 1, departement |-> 1, filiere |-> 1,
     niveau |-> 1, ue |-> 1, enseignant |-> 1, note |-> 12, age |-> 20, sexe |-> 1,
     date_naissance |-> [day |-> 1, month |-> 1, year |-> 2005]]

TablesOver(R) == UNION {[1..k -> R] : k \in 0..MaxRows}

\* limit: Optional[int] = Query(None, ge=1, ...); Null is "no limit"
Limits == 0..MaxLimit

\* n: int = Query(10, ge=1, le=100)
TopN == 1..MaxLimit

\* optional filter values: none, a value tables use, a value no table uses
FilterArgs == {Null, 1, 3}

\* optional level filter: none, or the second level
NiveauArgs == {Null, 2}

\* leaderboard tables of one partition: three students with notes 8 and 12
\* in one department, programme, level and course, and a missing note
OnePartitionRecords ==
    {[Default EXCEPT !.student_id = s, !.note = n] : s \in 1..3, n \in {8, 12}}
    \cup {[Default EXCEPT !.note = NoNote]}

\* leaderboard tables of several partitions: two students of the first
\* department, level and course; the same two in a second department, level
\* and course; a record without department and course in a second
\* programme; a record without name
ManyPartitionRecords ==
    {[Default EXCEPT !.note = 8], [Default EXCEPT !.student_id = 2]}
    \cup {[Default EXCEPT !.student_id = s, !.departement = 2, !.niveau = 2, !.ue = 2] :
             s \in 1..2}
    \cup {[Default EXCEPT !.student_id = 2, !.departement = Null, !.filiere = 2,
                          !.ue = Null, !.note = 8]}
    \cup {[Default EXCEPT !.student_id = 3, !.nom = Null]}

RankTables == TablesOver(OnePartitionRecords) \cup TablesOver(ManyPartitionRecords)

\* the service runs alone: no dashboard run, no data file left to read
NoDashboard ==
    /\ file = <<>>
    /\ mapping = <<>>
    /\ frame = <<>>
    /\ pc = "serving"

\* nothing recorded, one request at a time
Sequential ==
    /\ alone = {}
    /\ threads = <<>>

Idle ==
    /\ op = "idle"
    /\ arg = Args(Null, Null, Null)
    /\ result = Ok(<<>>)
    /\ Sequential
    /\ NoDashboard

InitRank ==
    /\ df \in RankTables
    /\ stableSort \in BOOLEAN
    /\ observedDefault = FALSE
    /\ Idle

\* the response has been delivered; the service waits for the next request
Return ==
    /\ op # "idle"
    /\ op' = "idle"
    /\ arg' = Args(Null, Null, Null)
    /\ result' = Ok(<<>>)
    /\ UNCHANGED <<df, build, workers, dashboard>>

ClassementGeneral ==
    \E limit \in Limits :
        Respond("classement_general", Args(Null, Null, limit), classement_general(limit))

ClassementDepartement ==
    \E departement \in FilterArgs, limit \in Limits :
        Respond("classement_departement", Args(departement, Null, limit),
                classement_departement(departement, limit))

ClassementFiliereNiveau ==
    \E filiere \in FilterArgs, niveau \in NiveauArgs, limit \in Limits :
        Respond("classement_filiere_niveau", Args(filiere, niveau, limit),
                classement_filiere_niveau(filiere, niveau, limit))

ClassementUe ==
    \E ue \in FilterArgs, limit \in Limits :
        Respond("classement_ue", Args(ue, Null, limit), classement_ue(ue, limit))

ClassementTop ==
    \E n \in TopN : Respond("classement_top", Args(Null, Null, n), classement_top(n))

NextRank ==
    \/ ClassementGeneral
    \/ ClassementDepartement
    \/ ClassementFiliereNiveau
    \/ ClassementUe
    \/ ClassementTop
    \/ Return

SpecRank == InitRank /\ [][NextRank]_vars

\* ------------------------------------------- leaderboards across partitions
\* records of two departments (programmes, levels, courses): two students
\* with different notes in the first, and in the second a student with a
\* note and one without
PartitionRecords ==
    {Default, [Default EXCEPT !.student_id = 2, !.note = 8]}
    \cup {[Default EXCEPT !.student_id = 3, !.departement = 2, !.filiere = 2, !.niveau = 2,
                          !.ue = 2, !.note = n] : n \in {12, NoNote}}

InitPartition ==
    /\ df \in TablesOver(PartitionRecords)
    /\ stableSort \in BOOLEAN
    /\ observedDefault = FALSE
    /\ Idle

SpecPartition == InitPartition /\ [][NextRank]_vars

\* ------------------------------------------------- the three-student table
\* three students of one partition, two with note 15 and student low with
\* note 12
ScenarioRecords(low) ==
    {[Default EXCEPT !.student_id = s, !.note = IF s = low THEN 12 ELSE 15] : s \in 1..3}

\* the tables of the three students, their records in any order
ScenarioTables ==
    UNION {{t \in TablesOver(ScenarioRecords(low)) :
               {t[i].student_id : i \in 1..Len(t)} = 1..3} : low \in 1..3}

InitScenario ==
    /\ df \in ScenarioTables
    /\ stableSort \in BOOLEAN
    /\ observedDefault = FALSE
    /\ Idle

SpecScenario == InitScenario /\ [][NextRank]_vars

\* ----------------------------------------- the leaderboards outside the API
\* classement_general(df) of the ranking script, of the dashboard and of the
\* report (the same text in the three files)
script_classement_general(data) == RankedFrame(data, GeneralCols, <<>>)

\* classement_par_departement(df) of the ranking script, of the dashboard and
\* of the report (the same text in the three files)
classement_par_departement(data) ==
    RankedFrame(data, <<"departement", "student_id", "nom", "prenom">>, <<"departement">>)

\* the report prints the first 10 rows of each department
ReportTop == 10

\* for dept in sorted(cpd["departement"].unique()):
\*     cpd[cpd["departement"] == dept].head(n)
report_top_departement(data, n) ==
    LET cpd == classement_par_departement(data)
        depts == SortedKeys({<<r.departement>> : r \in Range(cpd.rows)})
        Tables[i \in 0..Len(depts)] ==
            IF i = 0 THEN <<>>
            ELSE Tables[i - 1] \o HeadRows(FilterEq(cpd.rows, "departement", depts[i][1]), n)
    IN IF cpd.status = "ok" THEN Ok(Tables[Len(depts)]) ELSE cpd

\* sort_values("rang") of a float rank column: the rows with a rank are
\* sorted, the rows with a NaN rank follow in frame order
SortValuesNaLast(rows, col) ==
    SortValuesOne(SelectSeq(rows, LAMBDA r : r[col] # NoRank), col)
        \o SelectSeq(rows, LAMBDA r : r[col] = NoRank)

\* classement_etudiants(df) of the statistics script: the mean is named
\* moyenne_generale and the rank is not cast
classement_etudiants(data) ==
    LET c == WithRang(GroupMean(data, GeneralCols), <<>>)
        renamed == [i \in 1..Len(c) |->
                      [f \in (DOMAIN c[i] \ {"moyenne"}) \cup {"moyenne_generale"} |->
                          IF f = "moyenne_generale" THEN c[i].moyenne ELSE c[i][f]]]
    IN Ok(SortValuesNaLast(renamed, "rang"))

ScriptClassementGeneral ==
    Respond("script_classement_general", Args(Null, Null, Null), script_classement_general(df))

ClassementParDepartement ==
    Respond("classement_par_departement", Args(Null, Null, Null),
            classement_par_departement(df))

\* the constant of the report, and smaller cuts that the tables reach
ReportTopDepartement ==
    \E n \in TopN \cup {ReportTop} :
        Respond("report_top_departement", Args(Null, Null, n), report_top_departement(df, n))

ClassementEtudiants ==
    Respond("classement_etudiants", Args(Null, Null, Null), classement_etudiants(df))

NextDuplicates ==
    \/ ClassementGeneral
    \/ ClassementDepartement
    \/ ScriptClassementGeneral
    \/ ClassementParDepartement
    \/ ReportTopDepartement
    \/ ClassementEtudiants
    \/ Return

SpecDuplicates == InitPartition /\ [][NextDuplicates]_vars

\* ------------------------------------------------------ statistics requests
\* records of the statistics tables: two groups (department, course and
\* teacher 1 or 2) with a missing, a failing, a just passing and a passing
\* note, and a record of no department, course or teacher
StatsRecords ==
    {[Default EXCEPT !.departement = g, !.ue = g, !.enseignant = g, !.note = n] :
        g \in 1..2, n \in {NoNote, 8, 10, 12}}
    \cup {[Default EXCEPT !.departement = Null, !.ue = Null, !.enseignant = Null, !.note = 10]}

\* a required teacher or course: two that tables use, one no table uses
RequiredArgs == 1..3

InitStats ==
    /\ df \in TablesOver(StatsRecords)
    /\ stableSort = TRUE
    /\ observedDefault = FALSE
    /\ Idle

StatsGlobales == Respond("stats_globales", Args(Null, Null, Null), stats_globales)

StatsDepartement == Respond("stats_departement", Args(Null, Null, Null), stats_departement)

StatsEnseignant ==
    \E enseignant \in RequiredArgs :
        Respond("stats_enseignant", Args(enseignant, Null, Null), stats_enseignant(enseignant))

StatsUe == \E ue \in RequiredArgs : Respond("stats_ue", Args(ue, Null, Null), stats_ue(ue))

StatsToutesUes == Respond("stats_toutes_ues", Args(Null, Null, Null), stats_toutes_ues)

\* the dashboard's global view over its table
TabGlobal == Respond("tab_global", Args(Null, Null, Null), Ok(<<tab_global(NoteCol(df))>>))

NextStats ==
    \/ StatsGlobales
    \/ StatsDepartement
    \/ StatsEnseignant
    \/ StatsUe
    \/ StatsToutesUes
    \/ TabGlobal
    \/ Return

SpecStats == InitStats /\ [][NextStats]_vars

\* --------------------------------------------------------- student requests
\* records of the student tables: two students, two courses, a missing, a
\* low and a high note, and a record of student 1 without course
EtudiantRecords ==
    {[Default EXCEPT !.student_id = s, !.ue = u, !.note = n] :
        s \in 1..2, u \in 1..2, n \in {NoNote, 8, 12}}
    \cup {[Default EXCEPT !.ue = Null, !.note = 8]}

InitEtudiant ==
    /\ df \in TablesOver(EtudiantRecords)
    /\ stableSort = TRUE
    /\ observedDefault = FALSE
    /\ Idle

GetEtudiant ==
    \E student_id \in RequiredArgs :
        Respond("get_etudiant", Args(student_id, Null, Null), get_etudiant(student_id))

GetNotesEtudiant ==
    \E student_id \in RequiredArgs :
        Respond("get_notes_etudiant", Args(student_id, Null, Null),
                get_notes_etudiant(student_id))

NextEtudiant ==
    \/ GetEtudiant
    \/ GetNotesEtudiant
    \/ Return

SpecEtudiant == InitEtudiant /\ [][NextEtudiant]_vars

\* -------------------------------------------------------- age-band requests
\* ages around every edge of the bands, and a missing age; one record with a
\* low note and one with a missing note inside the first band
AgeValues == {NoAge, 16, 17, 18, 20, 21, 23, 24, 26, 27, 30, 31}

AgeRecords ==
    {[Default EXCEPT !.age = a] : a \in AgeValues}
    \cup {[Default EXCEPT !.age = 19, !.note = n] : n \in {NoNote, 8}}

InitAge ==
    /\ df \in TablesOver(AgeRecords)
    /\ stableSort = TRUE
    /\ observedDefault \in BOOLEAN
    /\ Idle

StatsTrancheAge == Respond("stats_tranche_age", Args(Null, Null, Null), stats_tranche_age)

NextAge ==
    \/ StatsTrancheAge
    \/ Return

SpecAge == InitAge /\ [][NextAge]_vars

\* ------------------------------------------------- every request of the API
\* records of the service tables: a student with a high and a low note in
\* two courses of the first department and, without note and below the
\* first band, a record in a second department; a second student without
\* course and without age
ApiRecords ==
    {Default,
     [Default EXCEPT !.ue = 2, !.enseignant = 2, !.note = 8, !.sexe = 2],
     [Default EXCEPT !.departement = 2, !.filiere = 2, !.niveau = 2, !.note = NoNote,
                     !.age = 17],
     [Default EXCEPT !.student_id = 3, !.ue = Null, !.note = 8, !.age = NoAge]}

Request(o, a) == [op |-> o, arg |-> a]

\* the requests the clients send
Requests ==
    {Request(o, Args(Null, Null, Null)) :
        o \in {"get_departements", "stats_globales", "stats_departement", "stats_toutes_ues",
               "stats_genre", "stats_tranche_age"}}
    \cup {Request(o, Args(d, Null, Null)) :
             o \in {"get_filieres", "get_enseignants"}, d \in FilterArgs}
    \cup {Request("get_ues", Args(n, Null, Null)) : n \in NiveauArgs}
    \cup {Request(o, Args(x, Null, Null)) :
             o \in {"stats_enseignant", "stats_ue", "get_etudiant", "get_notes_etudiant"},
             x \in RequiredArgs}
    \cup {Request("classement_general", Args(Null, Null, l)) : l \in Limits}
    \cup {Request(o, Args(f, Null, l)) :
             o \in {"classement_departement", "classement_ue"}, f \in FilterArgs, l \in Limits}
    \cup {Request("classement_filiere_niveau", Args(f, n, l)) :
             f \in FilterArgs, n \in NiveauArgs, l \in Limits}
    \cup {Request("classement_top", Args(Null, Null, n)) : n \in TopN}

\* the routes of the application: the handler of each request
Answer(o, a) ==
    CASE o = "get_departements" -> get_departements
      [] o = "get_filieres" -> get_filieres(a.f1)
      [] o = "get_enseignants" -> get_enseignants(a.f1)
      [] o = "get_ues" -> get_ues(a.f1)
      [] o = "stats_globales" -> stats_globales
      [] o = "stats_departement" -> stats_departement
      [] o = "stats_enseignant" -> stats_enseignant(a.f1)
      [] o = "stats_ue" -> stats_ue(a.f1)
      [] o = "stats_toutes_ues" -> stats_toutes_ues
      [] o = "stats_genre" -> stats_genre
      [] o = "stats_tranche_age" -> stats_tranche_age
      [] o = "classement_general" -> classement_general(a.limit)
      [] o = "classement_departement" -> classement_departement(a.f1, a.limit)
      [] o = "classement_filiere_niveau" -> classement_filiere_niveau(a.f1, a.f2, a.limit)
      [] o = "classement_ue" -> classement_ue(a.f1, a.limit)
      [] o = "classement_top" -> classement_top(a.limit)
      [] o = "get_etudiant" -> get_etudiant(a.f1)
      [] o = "get_notes_etudiant" -> get_notes_etudiant(a.f1)

\* what every request returns on the table as it stands
AnswerAll == {<<q, Answer(q.op, q.arg)>> : q \in Requests}

InitApi ==
    /\ df \in TablesOver(ApiRecords)
    /\ stableSort \in BOOLEAN
    /\ observedDefault \in BOOLEAN
    /\ op = "idle"
    /\ arg = Args(Null, Null, Null)
    /\ result = Ok(<<>>)
    /\ Sequential
    /\ NoDashboard

GetDepartements == Respond("get_departements", Args(Null, Null, Null), get_departements)

GetFilieres ==
    \E departement \in FilterArgs :
        Respond("get_filieres", Args(departement, Null, Null), get_filieres(departement))

GetEnseignants ==
    \E departement \in FilterArgs :
        Respond("get_enseignants", Args(departement, Null, Null), get_enseignants(departement))

GetUes == \E niveau \in NiveauArgs : Respond("get_ues", Args(niveau, Null, Null), get_ues(niveau))

StatsGenre == Respond("stats_genre", Args(Null, Null, Null), stats_genre)

NextApi ==
    \/ GetDepartements
    \/ GetFilieres
    \/ GetEnseignants
    \/ GetUes
    \/ StatsGlobales
    \/ StatsDepartement
    \/ StatsEnseignant
    \/ StatsUe
    \/ StatsToutesUes
    \/ StatsGenre
    \/ StatsTrancheAge
    \/ ClassementGeneral
    \/ ClassementDepartement
    \/ ClassementFiliereNiveau
    \/ ClassementUe
    \/ ClassementTop
    \/ GetEtudiant
    \/ GetNotesEtudiant
    \/ Return

SpecApi == InitApi /\ [][NextApi]_vars

\* ------------------------------------------------------- repeated requests
\* records of the tables asked twice: two students tied on their mean, a
\* third below them without course
RepeatRecords ==
    {Default,
     [Default EXCEPT !.student_id = 2, !.age = 31],
     [Default EXCEPT !.student_id = 3, !.ue = Null, !.note = 8, !.age = NoAge]}

InitRepeat ==
    /\ df \in TablesOver(RepeatRecords)
    /\ stableSort \in BOOLEAN
    /\ observedDefault \in BOOLEAN
    /\ op = "idle"
    /\ arg = Args(Null, Null, Null)
    /\ result = Ok(<<>>)
    /\ Sequential
    /\ NoDashboard

\* on the table as loaded every request is answered once, and the answers
\* are recorded
AskAll ==
    /\ op = "idle"
    /\ alone = {}
    /\ alone' = AnswerAll
    /\ UNCHANGED <<df, build, op, arg, result, threads, dashboard>>

NextRepeat ==
    \/ AskAll
    \/ NextApi

SpecRepeat == InitRepeat /\ [][NextRepeat]_vars

\* ------------------------------------------------------ concurrent requests
\* the worker threads of the server that run the handlers
MaxThreads == 2

Threads == 1..MaxThreads

\* records of the tables asked concurrently: a student of the first
\* programme in the first band, one of a second programme and level above
\* the last band
ConcurrentRecords ==
    {Default,
     [Default EXCEPT !.student_id = 2, !.filiere = 2, !.niveau = 2, !.note = 8, !.age = 31]}

\* the concurrent requests: the age bands, and the leaderboard by programme
\* and level without and with filters and limit
ConcurrentRequests ==
    {Request("stats_tranche_age", Args(Null, Null, Null)),
     Request("classement_filiere_niveau", Args(Null, Null, Null)),
     Request("classement_filiere_niveau", Args(2, 2, 1))}

\* a thread that runs no handler
IdleThread ==
    [pc |-> "idle", req |-> Request("idle", Args(Null, Null, Null)), data |-> <<>>,
     result |-> Ok(<<>>)]

\* the statement of a handler that changes its copy: the band column, the
\* conditional filters
Transformed(q, data) ==
    CASE q.op = "stats_tranche_age" -> tranche_age_column(data)
      [] q.op = "classement_filiere_niveau" ->
            filiere_niveau_filter(data, q.arg.f1, q.arg.f2)

\* the rest of a handler: the result computed from its copy
Answered(q, data) ==
    CASE q.op = "stats_tranche_age" -> tranche_age_means(data)
      [] q.op = "classement_filiere_niveau" -> filiere_niveau_classement(data, q.arg.limit)

InitConcurrent ==
    /\ df \in TablesOver(ConcurrentRecords)
    /\ stableSort \in BOOLEAN
    /\ observedDefault \in BOOLEAN
    /\ op = "idle"
    /\ arg = Args(Null, Null, Null)
    /\ result = Ok(<<>>)
    /\ alone = {<<q, Answer(q.op, q.arg)>> : q \in ConcurrentRequests}
    /\ threads = [t \in Threads |-> IdleThread]
    /\ NoDashboard

\* a statement of thread t
Step(t, next, table) ==
    /\ threads' = [threads EXCEPT ![t] = next]
    /\ df' = table
    /\ UNCHANGED <<build, op, arg, result, alone, dashboard>>

\* the server hands a request to a free thread
Accept(t) ==
    /\ threads[t].pc = "idle"
    /\ \E q \in ConcurrentRequests :
          Step(t, [threads[t] EXCEPT !.pc = "copy", !.req = q], df)

\* data = df.copy()
CopyTable(t) ==
    /\ threads[t].pc = "copy"
    /\ Step(t, [threads[t] EXCEPT !.pc = "transform", !.data = df], df)

\* the handler adds its column to, or filters, its copy
Transform(t) ==
    /\ threads[t].pc = "transform"
    /\ Step(t, [threads[t] EXCEPT !.pc = "answer",
                                  !.data = Transformed(threads[t].req, threads[t].data)],
            TableAfter(threads[t].req.op, threads[t].req.arg))

\* the handler computes its result from its copy
ComputeAnswer(t) ==
    /\ threads[t].pc = "answer"
    /\ Step(t, [threads[t] EXCEPT !.pc = "done",
                                  !.result = Answered(threads[t].req, threads[t].data)], df)

\* the response is sent and the thread is free again
Deliver(t) ==
    /\ threads[t].pc = "done"
    /\ Step(t, IdleThread, df)

NextConcurrent ==
    \E t \in Threads :
        \/ Accept(t)
        \/ CopyTable(t)
        \/ Transform(t)
        \/ ComputeAnswer(t)
        \/ Deliver(t)

SpecConcurrent == InitConcurrent /\ [][NextConcurrent]_vars

\* ---------------------------------------------------------------- data files
\* A cell of a data file is the text it holds: a number, a date written as
\* three numbers "a/b/c", another text (a code), or nothing.  A frame is a
\* list of column names (a name may occur twice) and rows of cells in the
\* order of the columns; a parsed date is a timestamp (year, month, day).
Num(n) == [kind |-> "number", v |-> <<n>>]
Text(k) == [kind |-> "text", v |-> <<k>>]
DateText(a, b, c) == [kind |-> "date", v |-> <<a, b, c>>]
Empty == [kind |-> "empty", v |-> <<>>]
Timestamp(y, m, d) == [kind |-> "timestamp", v |-> <<y, m, d>>]

\* a text in the note column of a table of records
BadText == -2

\* a missing birth date in a table of records (NaT)
NaT == [day |-> 0, month |-> 0, year |-> 0]

ExpectedColumns ==
    <<"student_id", "nom", "prenom", "sexe", "date_naissance", "departement", "filiere",
      "niveau", "ue", "enseignant", "note">>

IsLeap(y) == (y % 4 = 0 /\ y % 100 # 0) \/ y % 400 = 0

DaysIn(m, y) ==
    IF m = 2 THEN (IF IsLeap(y) THEN 29 ELSE 28)
    ELSE IF m \in {4, 6, 9, 11} THEN 30 ELSE 31

\* strptime(text, "%d/%m/%Y") succeeds: the three numbers are read as day,
\* month and year, in that order
Parses(c) == c.kind = "date" /\ c.v[2] \in 1..12 /\ c.v[1] \in 1..DaysIn(c.v[2], c.v[3])

\* pd.to_datetime(cell, format="%d/%m/%Y"): NaT for a missing cell and, with
\* errors="coerce", for a text that does not parse
to_datetime(c) == IF Parses(c) THEN Timestamp(c.v[3], c.v[2], c.v[1]) ELSE Empty

\* without errors="coerce" a text that does not parse raises
DateRaises(c) == c.kind # "empty" /\ ~Parses(c)

today == Timestamp(2025, 9, 1)

\* variant: the birthday counts only from the day after it
age_lambda_DayAfter(d) ==
    IF d.kind # "timestamp" THEN Empty
    ELSE Num(today.v[1] - d.v[1]
             - (IF LexLessEq(<<today.v[2], today.v[3]>>, <<d.v[2], d.v[3]>>) THEN 1 ELSE 0))

\* lambda d: today.year - d.year - ((today.month, today.day) < (d.month, d.day));
\* on NaT the year is NaN and so is the result
age_lambda(d) ==
    IF d.kind # "timestamp" THEN Empty
    ELSE Num(today.v[1] - d.v[1]
             - (IF LexLess(<<today.v[2], today.v[3]>>, <<d.v[2], d.v[3]>>) THEN 1 ELSE 0))

\* the upload path's lambda: ... if pd.notnull(d) else None
age_lambda_upload(d) == IF d.kind # "empty" THEN age_lambda(d) ELSE Empty

\* pd.read_csv(file): the columns and rows of the file
read_csv(f) == [cols |-> f.cols, rows |-> f.rows]

ColumnsNamed(fr, name) == {j \in 1..Len(fr.cols) : fr.cols[j] = name}

\* df[name]
Column(fr, name) ==
    LET j == CHOOSE j \in ColumnsNamed(fr, name) : TRUE
    IN [i \in 1..Len(fr.rows) |-> fr.rows[i][j]]

\* df[name] = values: the column is replaced, or appended when new
SetColumn(fr, name, values) ==
    IF ColumnsNamed(fr, name) = {}
    THEN [cols |-> Append(fr.cols, name),
          rows |-> [i \in 1..Len(fr.rows) |-> Append(fr.rows[i], values[i])]]
    ELSE [cols |-> fr.cols,
          rows |-> [i \in 1..Len(fr.rows) |->
                      [j \in 1..Len(fr.cols) |->
                          IF fr.cols[j] = name THEN values[i] ELSE fr.rows[i][j]]]]

\* the value a cell of column col has in a table of records; a note column
\* that holds a text is not numeric (dtype object) and keeps its texts
CellValue(col, c) ==
    CASE col = "note" ->
            (IF c.kind = "number" THEN c.v[1] ELSE IF c.kind = "empty" THEN NoNote ELSE BadText)
      [] col = "age" -> (IF c.kind = "number" THEN c.v[1] ELSE NoAge)
      [] col = "date_naissance" ->
            (IF c.kind = "timestamp" THEN [day |-> c.v[3], month |-> c.v[2], year |-> c.v[1]]
             ELSE NaT)
      [] OTHER -> (IF c.kind = "empty" THEN Null ELSE c.v[1])

\* the frame as a table of records
ToRecords(fr) ==
    [i \in 1..Len(fr.rows) |-> [c \in DOMAIN Default |-> CellValue(c, Column(fr, c)[i])]]

\* load_data() of the service, of the dashboard and of the scripts: read the
\* file, parse the birth dates (a text that does not parse raises), derive
\* the age
load_data(f) ==
    LET raw == read_csv(f)
        dates == Column(raw, "date_naissance")
        parsed == [i \in 1..Len(dates) |-> to_datetime(dates[i])]
        aged == SetColumn(SetColumn(raw, "date_naissance", parsed), "age",
                          [i \in 1..Len(dates) |-> age_lambda(parsed[i])])
    IN IF \E i \in 1..Len(dates) : DateRaises(dates[i]) THEN Raised
       ELSE Ok(ToRecords(aged))

\* ------------------------------------------------- the dashboard's upload path
NoFrame == [cols |-> <<>>, rows |-> <<>>]

\* variant: a file without rows is accepted
load_external_data_NoEmptyCheck(f) ==
    IF ~f.readable THEN [status |-> "none", frame |-> NoFrame]
    ELSE [status |-> "ok", frame |-> read_csv(f)]

\* load_external_data: None when reading raises or the frame has no row
load_external_data(f) ==
    IF ~f.readable \/ f.rows = <<>> THEN [status |-> "none", frame |-> NoFrame]
    ELSE [status |-> "ok", frame |-> read_csv(f)]

\* df.rename(columns={v: k for k, v in mapping.items()}): a source column
\* takes the name of the last expected field it was selected for
rename(fr, m) ==
    [cols |-> [j \in 1..Len(fr.cols) |->
                 LET ks == {i \in 1..Len(ExpectedColumns) : m[ExpectedColumns[i]] = fr.cols[j]}
                 IN IF ks = {} THEN fr.cols[j]
                    ELSE ExpectedColumns[CHOOSE i \in ks : \A i2 \in ks : i2 <= i]],
     rows |-> fr.rows]

\* the dates and ages of the upload path, inside try/except: without exactly
\* one date_naissance column the lookup or the conversion raises, the
\* exception is shown as a warning and the frame stays as it was
upload_dates(fr) ==
    IF Cardinality(ColumnsNamed(fr, "date_naissance")) # 1 THEN fr
    ELSE LET dates == Column(fr, "date_naissance")
             parsed == [i \in 1..Len(dates) |-> to_datetime(dates[i])]
         IN SetColumn(SetColumn(fr, "date_naissance", parsed), "age",
                      [i \in 1..Len(dates) |-> age_lambda_upload(parsed[i])])

\* pd.to_numeric(cell, errors="coerce")
to_numeric(c) == IF c.kind = "number" THEN c ELSE Empty

\* -------------------------------------------------------------- the loaders
\* during a load no request is answered
NoRequest ==
    /\ stableSort = TRUE
    /\ observedDefault = FALSE
    /\ op = "idle"
    /\ arg = Args(Null, Null, Null)
    /\ result = Ok(<<>>)
    /\ Sequential

\* a row of a file with the expected columns
FileRow(date, note) ==
    [j \in 1..Len(ExpectedColumns) |->
        CASE ExpectedColumns[j] = "date_naissance" -> date
          [] ExpectedColumns[j] = "note" -> note
          [] OTHER -> Text(1)]

\* birth dates around the reference day and the turn of the year, a date
\* written month first, and no date
BirthCells ==
    {DateText(1, 9, 2000), DateText(2, 9, 2000), DateText(31, 8, 2000), DateText(1, 1, 2005),
     DateText(31, 12, 2004), DateText(9, 13, 2000), Empty}

\* rows of the loaded files: every birth date with a note, and a missing
\* and an unparsable note
FileRows ==
    {FileRow(d, Num(12)) : d \in BirthCells}
    \cup {FileRow(DateText(1, 1, 2005), n) : n \in {Empty, Text(1)}}

\* the built-in file, or an uploaded file of the same columns
LoadedFiles ==
    {[uploaded |-> u, readable |-> TRUE, cols |-> ExpectedColumns, rows |-> rs] :
        u \in BOOLEAN, rs \in UNION {[1..k -> FileRows] : k \in 0..MaxRows}}

\* every expected field selected from the column of its name
IdentityMapping == [k \in Range(ExpectedColumns) |-> k]

InitLoad ==
    /\ file \in LoadedFiles
    /\ mapping = IdentityMapping
    /\ frame = NoFrame
    /\ pc = "start"
    /\ df = <<>>
    /\ NoRequest

\* a step of a loading process: only the table, the frame and the stage move
Load(table, fr, stage) ==
    /\ df' = table
    /\ frame' = fr
    /\ pc' = stage
    /\ UNCHANGED <<build, op, arg, result, workers, file, mapping>>

\* df = load_data() at the import of the service
ApiImport ==
    /\ pc = "start" /\ ~file.uploaded
    /\ LET r == load_data(file)
       IN IF r.status = "ok" THEN Load(r.rows, frame, "serving") ELSE Load(df, frame, "crashed")

\* df = load_and_prepare_data() of a script
ScriptLoad ==
    /\ pc = "start" /\ ~file.uploaded
    /\ LET r == load_data(file)
       IN IF r.status = "ok" THEN Load(r.rows, frame, "script") ELSE Load(df, frame, "crashed")

\* the dashboard without upload: df = load_data(), then the check that the
\* table is not empty
DashboardDefault ==
    /\ pc = "start" /\ ~file.uploaded
    /\ LET r == load_data(file)
       IN IF r.status # "ok" THEN Load(df, frame, "crashed")
          ELSE IF r.rows = <<>> THEN Load(r.rows, frame, "stopped")
          ELSE Load(r.rows, frame, "analysis")

\* df = load_external_data(uploaded_file); if df is None: st.stop()
ReadUpload ==
    /\ pc = "start" /\ file.uploaded
    /\ LET r == load_external_data(file)
       IN IF r.status = "none" THEN Load(df, frame, "stopped") ELSE Load(df, r.frame, "loaded")

\* if "" in mapping.values(): st.stop()
CheckMapping ==
    /\ pc = "loaded"
    /\ IF \E k \in DOMAIN mapping : mapping[k] = "" THEN Load(df, frame, "stopped")
       ELSE Load(df, frame, "mapped")

\* the else branch: rename, then dates and ages
RenameColumns ==
    /\ pc = "mapped"
    /\ Load(df, upload_dates(rename(frame, mapping)), "renamed")

\* missing_cols: a required column that is no column of the frame stops the run
CheckRequired ==
    /\ pc = "renamed"
    /\ IF \E k \in Range(ExpectedColumns) : ColumnsNamed(frame, k) = {}
       THEN Load(df, frame, "stopped")
       ELSE Load(df, frame, "required")

\* df["note"] = pd.to_numeric(df["note"], errors="coerce"); st.stop() when
\* no cell is numeric, and when the conversion raises (two columns named
\* note make df["note"] a frame)
CoerceNote ==
    /\ pc = "required"
    /\ IF Cardinality(ColumnsNamed(frame, "note")) # 1 THEN Load(df, frame, "stopped")
       ELSE LET notes == Column(frame, "note")
                coerced == SetColumn(frame, "note",
                                     [i \in 1..Len(notes) |-> to_numeric(notes[i])])
            IN IF \A i \in 1..Len(notes) : to_numeric(notes[i]) = Empty
               THEN Load(df, coerced, "stopped")
               ELSE Load(df, coerced, "numeric")

\* if df is None or df.empty: st.stop(); otherwise the analysis begins
CheckFrame ==
    /\ pc = "numeric"
    /\ IF frame.rows = <<>> \/ frame.cols = <<>> THEN Load(df, frame, "stopped")
       ELSE Load(df, frame, "analysis")

NextUpload ==
    \/ ReadUpload
    \/ CheckMapping
    \/ RenameColumns
    \/ CheckRequired
    \/ CoerceNote
    \/ CheckFrame

NextLoad ==
    \/ ApiImport
    \/ ScriptLoad
    \/ DashboardDefault
    \/ NextUpload

SpecLoad == InitLoad /\ [][NextLoad]_vars

\* ------------------------------------------------------- runs of the upload
\* the columns of an uploaded file: nine of the expected columns and any of
\* nom, note and a column of another name
UploadColumns(extra) ==
    SelectSeq(ExpectedColumns \o <<"colA">>,
              LAMBDA c : c \notin {"nom", "note", "colA"} \/ c \in extra)

\* a row whose note is n and whose other column holds a; every further
\* column holds a text of its own
UploadRow(cols, n, a) ==
    [j \in 1..Len(cols) |->
        CASE cols[j] = "date_naissance" -> DateText(1, 1, 2005)
          [] cols[j] = "note" -> n
          [] cols[j] = "colA" -> a
          [] OTHER -> Text(j)]

\* scores of a row: a number beside a text, a text beside a number, nothing
UploadCells == {<<Num(12), Text(2)>>, <<Text(1), Num(8)>>, <<Empty, Empty>>}

\* uploaded files: readable or not, with or without rows
UploadedFiles ==
    {[uploaded |-> TRUE, readable |-> r, cols |-> UploadColumns(extra),
      rows |-> [i \in 1..Len(cells) |->
                  UploadRow(UploadColumns(extra), cells[i][1], cells[i][2])]] :
        r \in BOOLEAN, extra \in SUBSET {"nom", "note", "colA"},
        cells \in UNION {[1..k -> UploadCells] : k \in 0..MaxRows}}

\* st.selectbox(label, options=[""] + list(df.columns)): the selections of
\* a run; nom and note are left open, selected from their own column or
\* from another one
Selections(f) ==
    LET options == {""} \cup Range(f.cols)
    IN {[k \in Range(ExpectedColumns) |->
            IF k = "nom" THEN a ELSE IF k = "note" THEN b ELSE k] :
           a \in {"", "nom", "colA", "prenom"} \cap options,
           b \in {"", "note", "colA", "nom"} \cap options}

InitUpload ==
    /\ file \in UploadedFiles
    /\ mapping \in Selections(file)
    /\ frame = NoFrame
    /\ pc = "start"
    /\ df = <<>>
    /\ NoRequest

\* tab_global: the indicators of the table that passed the checks
Analyse ==
    /\ pc = "analysis" /\ op = "idle"
    /\ df' = (IF file.uploaded THEN ToRecords(frame) ELSE df)
    /\ op' = "tab_global"
    /\ arg' = Args(Null, Null, Null)
    /\ result' = Ok(<<tab_global(NoteCol(IF file.uploaded THEN ToRecords(frame) ELSE df))>>)
    /\ UNCHANGED <<build, workers, dashboard>>

NextRun ==
    \/ NextUpload
    \/ Analyse

SpecUpload == InitUpload /\ [][NextRun]_vars

\* ------------------------------------------------------ the sidebar filters
\* str(x) of a cell: the digits of a number, the text itself
DigitsText(n) == [kind |-> "text", v |-> <<0, n>>]

str(c) == IF c.kind = "number" THEN DigitsText(c.v[1]) ELSE c

\* the first option of a filter: "Tous" / "Toutes"
Tous == [kind |-> "all", v |-> <<>>]

\* ["Tous"] + sorted([str(x) for x in df[col].dropna().unique()]); "Tous"
\* alone when the column is missing
filter_options(fr, col) ==
    IF Cardinality(ColumnsNamed(fr, col)) # 1 THEN {Tous}
    ELSE {Tous} \cup {str(c) : c \in {x \in Range(Column(fr, col)) : x.kind # "empty"}}

\* df_filtered[df_filtered[col] == selected]: a cell equals the selected text
\* when it is that text; a number and a missing cell equal no text
frame_filter(fr, col, selected) ==
    IF selected = Tous \/ ColumnsNamed(fr, col) = {} THEN fr
    ELSE LET j == CHOOSE j \in ColumnsNamed(fr, col) : TRUE
         IN [fr EXCEPT !.rows = SelectSeq(fr.rows, LAMBDA row : row[j] = selected)]

FilterColumns == <<"departement", "filiere", "niveau", "enseignant">>

\* the four filters applied one after the other to a copy of the table
AllFilters(fr, selection) ==
    LET Applied[i \in 0..Len(FilterColumns)] ==
            IF i = 0 THEN fr
            ELSE frame_filter(Applied[i - 1], FilterColumns[i], selection[FilterColumns[i]])
    IN Applied[Len(FilterColumns)]

\* variant: the filtered table is kept also when it is empty
sidebar_filters_NoReset(fr, selection) == AllFilters(fr, selection)

\* df_filtered: if df_filtered.empty: df_filtered = df.copy()
sidebar_filters(fr, selection) ==
    IF AllFilters(fr, selection).rows = <<>> THEN fr ELSE AllFilters(fr, selection)

\* a row of an uploaded file with the given department, level and teacher
FilterRow(dep, niv, ens) ==
    [j \in 1..Len(ExpectedColumns) |->
        CASE ExpectedColumns[j] = "date_naissance" -> DateText(1, 1, 2005)
          [] ExpectedColumns[j] = "note" -> Num(12)
          [] ExpectedColumns[j] = "departement" -> dep
          [] ExpectedColumns[j] = "niveau" -> niv
          [] ExpectedColumns[j] = "enseignant" -> ens
          [] OTHER -> Text(1)]

\* rows of two departments or none, with the level written as a text or as
\* a number
FilterRows ==
    {FilterRow(dep, niv, Text(1)) : dep \in {Text(1), Text(2), Empty}, niv \in {Text(1), Num(1)}}

FilteredFiles ==
    {[uploaded |-> TRUE, readable |-> TRUE, cols |-> ExpectedColumns, rows |-> rs] :
        rs \in UNION {[1..k -> FilterRows] : k \in 0..MaxRows}}

InitFilter ==
    /\ file \in FilteredFiles
    /\ mapping = IdentityMapping
    /\ frame = NoFrame
    /\ pc = "start"
    /\ df = <<>>
    /\ NoRequest

\* the selections of the four selectboxes, then the filtering
SidebarFilters ==
    /\ pc = "analysis" /\ op = "idle"
    /\ \E selection \in [Range(FilterColumns) -> UNION {filter_options(frame, c) :
                                                          c \in Range(FilterColumns)}] :
          /\ \A c \in Range(FilterColumns) : selection[c] \in filter_options(frame, c)
          /\ op' = "sidebar_filters"
          /\ arg' = selection
          /\ result' = Ok(sidebar_filters(frame, selection).rows)
    /\ UNCHANGED <<df, build, workers, dashboard>>

NextFilter ==
    \/ NextUpload
    \/ SidebarFilters

SpecFilter == InitFilter /\ [][NextFilter]_vars

\* ======================================================================
\* Properties of the leaderboards (checked under SpecRank)
\* ======================================================================
LeaderboardOps ==
    {"classement_general", "classement_departement", "classement_filiere_niveau",
     "classement_ue", "classement_top"}

\* the partition columns of each leaderboard
PartitionCols(o) ==
    CASE o = "classement_departement" -> <<"departement">>
      [] o = "classement_filiere_niveau" -> <<"filiere", "niveau">>
      [] o = "classement_ue" -> <<"ue">>
      [] OTHER -> <<>>

\* the entity columns of each leaderboard
EntityCols(o) ==
    CASE o \in {"classement_general", "classement_top"} -> GeneralCols
      [] OTHER -> PartitionCols(o) \o <<"student_id", "nom", "prenom">>

\* the records a leaderboard request is about
Requested(o, a) ==
    CASE o = "classement_departement" -> {r \in Range(df) : a.f1 = Null \/ r.departement = a.f1}
      [] o = "classement_filiere_niveau" ->
            {r \in Range(df) : (a.f1 = Null \/ r.filiere = a.f1) /\ (a.f2 = Null \/ r.niveau = a.f2)}
      [] o = "classement_ue" -> {r \in Range(df) : a.f1 = Null \/ r.ue = a.f1}
      [] OTHER -> Range(df)

IsLeaderboard == op \in LeaderboardOps /\ result.status = "ok"

SamePartition(i, j) ==
    KeyOf(result.rows[i], PartitionCols(op)) = KeyOf(result.rows[j], PartitionCols(op))

\* C1: in every leaderboard the ranks of a partition are exactly 1..k (from
\* 1, no gap), and two rows of a partition share a rank iff their means are
\* equal
C1_DenseRanks ==
    IsLeaderboard =>
        \A i \in 1..Len(result.rows) :
            LET part == {j \in 1..Len(result.rows) : SamePartition(i, j)}
                ranks == {result.rows[j].rang : j \in part}
            IN /\ \E k \in 1..Len(result.rows) : ranks = 1..k
               /\ \A j \in part :
                     (result.rows[i].rang = result.rows[j].rang)
                        <=> (result.rows[i].moyenne = result.rows[j].moyenne)

\* a partition of a leaderboard with two tied leaders and a third entity below
C1_Witness ==
    /\ IsLeaderboard
    /\ \E i, j, k \in 1..Len(result.rows) :
          /\ i # j /\ SamePartition(i, j) /\ SamePartition(i, k)
          /\ result.rows[i].rang = 1 /\ result.rows[j].rang = 1 /\ result.rows[k].rang = 2
          /\ Gt(result.rows[i].moyenne, result.rows[k].moyenne)

\* the entities of partition p among the requested records: the distinct
\* complete entity keys
EntitiesOf(p) ==
    {k \in {KeyOf(r, EntityCols(op)) : r \in Requested(op, arg)} :
        ~HasNull(k) /\ SubSeq(k, 1, Len(p)) = p}

\* the same request without its limit
Unlimited ==
    CASE op = "classement_general" -> classement_general(Null)
      [] op = "classement_departement" -> classement_departement(arg.f1, Null)
      [] op = "classement_filiere_niveau" -> classement_filiere_niveau(arg.f1, arg.f2, Null)
      [] op = "classement_ue" -> classement_ue(arg.f1, Null)

RowsOfPartition(rows, p) == SelectSeq(rows, LAMBDA r : KeyOf(r, PartitionCols(op)) = p)

C6_TopNStudents ==
    (op = "classement_top" /\ result.status = "ok") =>
        /\ Len(result.rows) = Min2(arg.limit, Cardinality({r.student_id : r \in Range(df)}))
        /\ result = classement_general(arg.limit)

\* C7: a leaderboard is ordered by partition key, then by rank: of two
\* consecutive rows the first has the smaller key, or the same key and a
\* rank not above the second's; also under a limit
C7_Ordered ==
    IsLeaderboard =>
        \A i \in 1..(Len(result.rows) - 1) :
            LET a == result.rows[i]
                b == result.rows[i + 1]
                ka == KeyOf(a, PartitionCols(op))
                kb == KeyOf(b, PartitionCols(op))
            IN LexLess(ka, kb) \/ (ka = kb /\ a.rang <= b.rang)

\* a limited leaderboard over (programme, level) with three rows, two
\* partitions apart in the second column only, and two ranks in one of them
C7_Witness ==
    /\ IsLeaderboard /\ op = "classement_filiere_niveau" /\ arg.limit = 2
    /\ Len(result.rows) = 3
    /\ \E i, j \in 1..3 :
          /\ result.rows[i].filiere = result.rows[j].filiere
          /\ result.rows[i].niveau < result.rows[j].niveau
    /\ \E i, j \in 1..3 : SamePartition(i, j) /\ result.rows[i].rang < result.rows[j].rang

\* ======================================================================
\* Properties of the statistics (checked under SpecStats)
\* ======================================================================
\* the grouping column of each statistics request (none: the whole table)
StatsColumn(o) ==
    CASE o \in {"stats_departement"} -> "departement"
      [] o \in {"stats_enseignant"} -> "enseignant"
      [] o \in {"stats_ue", "stats_toutes_ues"} -> "ue"
      [] o \in {"stats_genre"} -> "sexe"
      [] OTHER -> "none"

StatsOps ==
    {"stats_globales", "stats_departement", "stats_enseignant", "stats_ue", "stats_toutes_ues"}

\* the notes of the records behind row i of a statistics result
NotesBehind(i) ==
    LET c == StatsColumn(op)
    IN IF c = "none" THEN NoteCol(df)
       ELSE NoteCol(SelectSeq(df, LAMBDA r : r[c] = result.rows[i][c]))

Passes(x) == Cardinality({i \in 1..Len(x) : x[i] # NoNote /\ x[i] >= 10})

\* C2 (as claimed): the pass rate of a group is 100 * (non-null notes >= 10)
\* / (non-null notes); missing notes are not in the denominator
C2_PassRateOverNonNull ==
    (op \in StatsOps /\ result.status = "ok") =>
        \A i \in 1..Len(result.rows) :
            LET x == NotesBehind(i)
            IN Len(DropNa(x)) > 0 =>
                 result.rows[i].taux_reussite = Ratio(100 * Passes(x), Len(DropNa(x)))

\* C3 (as claimed): nombre_notes is the number of records of the group,
\* records with a missing note included
C3_CountIncludesNull ==
    (op \in {"stats_toutes_ues", "stats_enseignant"} /\ result.status = "ok") =>
        \A i \in 1..Len(result.rows) : result.rows[i].nombre_notes = Len(NotesBehind(i))

\* C4 (as claimed): grouping yields one row per distinct key of the table,
\* the missing key included, so that every record is behind exactly one row
C4_OneRowPerKey ==
    (op \in {"stats_departement", "stats_toutes_ues"} /\ result.status = "ok") =>
        LET c == StatsColumn(op)
        IN /\ {result.rows[i][c] : i \in 1..Len(result.rows)} = {r[c] : r \in Range(df)}
           /\ Len(result.rows) = Cardinality({r[c] : r \in Range(df)})

\* C9 (as claimed): a teacher or course no record has gives a not-found result
C9_UnknownIsNotFound ==
    (op \in {"stats_enseignant", "stats_ue"} /\ df # <<>>
       /\ \A r \in Range(df) : r[StatsColumn(op)] # arg.f1) =>
        result.status = "error"

\* ======================================================================
\* Properties of the student requests (checked under SpecEtudiant)
\* ======================================================================
\* C8: the student requests give the not-found result exactly when no record
\* has the requested student_id; otherwise they give a result that is
\* neither not-found, nor an exception, nor empty
C8_NotFoundIffNoRecord ==
    (op \in {"get_etudiant", "get_notes_etudiant"}) =>
        LET known == \E r \in Range(df) : r.student_id = arg.f1
        IN /\ (result = NotFound) <=> ~known
           /\ known => (result.status = "ok" /\ result.rows # <<>>)

\* an unknown student asked of a table that has records
C8_Witness ==
    /\ op \in {"get_etudiant", "get_notes_etudiant"}
    /\ df # <<>>
    /\ result = NotFound

\* ======================================================================
\* Properties of the age bands (checked under SpecAge)
\* ======================================================================
\* the records whose age lies in band b: edges[b] < age <= edges[b + 1]
InBand(b) ==
    SelectSeq(df, LAMBDA r : r.age # NoAge /\ AgeBins[b] < r.age /\ r.age <= AgeBins[b + 1])

\* C10: every age falls in band i iff edges[i] < age <= edges[i + 1] and in
\* no band otherwise: the row of a band averages exactly the records whose
\* age satisfies the band's inequality, and a band no record falls in has no
\* value (or, with observed groups only, no row)
C10_BandIffBetweenEdges ==
    (op = "stats_tranche_age") =>
        /\ result.status = "ok"
        /\ \A i \in 1..Len(result.rows) :
              /\ result.rows[i].tranche_age \in 1..4
              /\ result.rows[i].note = SeriesMean(NoteCol(InBand(result.rows[i].tranche_age)))
              /\ \A j \in 1..Len(result.rows) :
                    result.rows[i].tranche_age = result.rows[j].tranche_age => i = j
        /\ \A b \in 1..4 :
              (InBand(b) # <<>> \/ ~observedDefault)
                 <=> (\E i \in 1..Len(result.rows) : result.rows[i].tranche_age = b)

\* ages 17, 20 and 31 in one table: only 20 is in a band, the first
C10_Witness ==
    /\ op = "stats_tranche_age"
    /\ {r.age : r \in Range(df)} = {17, 20, 31}
    /\ \A i \in 1..Len(result.rows) :
          IsNaN(result.rows[i].note) <=> result.rows[i].tranche_age # 1

\* ======================================================================
\* Properties of the shared table (checked under SpecApi)
\* ======================================================================
\* the records of the table whose age lies in no band
Unbanded == SelectSeq(df, LAMBDA r : cut(r.age, AgeBins) = Null)

\* C11: the age-band request leaves the shared table as it was (same
\* records, same columns, no tranche_age column, no row dropped); a record
\* of unbanded age is behind no band's value, and after the request the
\* global statistics, which count it, are what they were
C11_AgeBandsLeaveTable ==
    [][(op' = "stats_tranche_age") =>
          /\ df' = df
          /\ \A i \in 1..Len(df') : DOMAIN df'[i] = DOMAIN Default
          /\ \A i \in 1..Len(result'.rows) :
                result'.rows[i].note = SeriesMean(NoteCol(InBand(result'.rows[i].tranche_age)))
          /\ stats_globales' = stats_globales]_vars

\* the age-band request answered on a table with a record in the first band
\* and records above the last band, below the first and without age
C11_Witness ==
    /\ op = "stats_tranche_age"
    /\ Len(Unbanded) = 2
    /\ Len(df) = 3
    /\ \E i \in 1..Len(result.rows) : result.rows[i].note = Ratio(12, 1)

\* ======================================================================
\* Properties of the loaders (checked under SpecLoad)
\* ======================================================================
\* the ages of the loaded rows: of the table the built-in loaders return, of
\* the frame on the upload path once it has its age column
LoadedAges ==
    IF ~file.uploaded THEN [i \in 1..Len(df) |-> df[i].age]
    ELSE IF ColumnsNamed(frame, "age") = {} THEN <<>>
    ELSE [i \in 1..Len(frame.rows) |-> CellValue("age", Column(frame, "age")[i])]

\* a stage at which the loader has produced its table
Loaded ==
    IF file.uploaded THEN pc \in {"renamed", "required", "numeric", "analysis"}
    ELSE pc \in {"serving", "script", "analysis"}

\* the birth date written in row i of the file
BirthText(i) == file.rows[i][5]

\* C12: every loader (service, scripts, dashboard with and without upload)
\* gives the row of a birth date d/m/y the age 2025 - y, less one exactly
\* when the birthday falls after 1 September (m/d later than 09/01), and no
\* age to a row without birth date; no row is lost
C12_AgeAtReferenceDate ==
    Loaded =>
        /\ Len(LoadedAges) = Len(file.rows)
        /\ \A i \in 1..Len(LoadedAges) :
              LET c == BirthText(i)
              IN IF Parses(c)
                 THEN LoadedAges[i] =
                        2025 - c.v[3] - (IF 100 * c.v[2] + c.v[1] > 901 THEN 1 ELSE 0)
                 ELSE LoadedAges[i] = NoAge

\* a loader has given 25 years to a student born on 1 September 2000 and
\* 24 to one born on 2 September 2000
C12_Witness ==
    /\ Loaded
    /\ \E i, j \in 1..Len(LoadedAges) :
          /\ BirthText(i) = DateText(1, 9, 2000) /\ LoadedAges[i] = 25
          /\ BirthText(j) = DateText(2, 9, 2000) /\ LoadedAges[j] = 24

\* ======================================================================
\* Properties of undefined statistics (checked under SpecStats)
\* ======================================================================
StatsAndIndicators == StatsOps \cup {"tab_global"}

\* a statistic reported as NaN or as 0
NaNOrZero(x) == IsNaN(x) \/ x = Ratio(0, 1)

\* C13 (as claimed): the standard deviation of fewer than two non-null notes,
\* and the mean and median of no non-null note, are reported as an explicit
\* no-value: the request (on a table that has records) does not raise and
\* the value is neither NaN nor 0
C13_UndefinedIsNoValue ==
    (op \in StatsAndIndicators /\ df # <<>>) =>
        /\ result.status = "ok"
        /\ \A i \in 1..Len(result.rows) :
              LET n == Len(DropNa(NotesBehind(i)))
                  row == result.rows[i]
              IN /\ n < 2 => ~NaNOrZero(row.ecart_type)
                 /\ n = 0 => ~NaNOrZero(row.moyenne)
                 /\ (n = 0 /\ "mediane" \in DOMAIN row) => ~NaNOrZero(row.mediane)

\* C18: the pass rate of a non-empty group whose notes are all missing is 0
C18_AllNullPassRateZero ==
    (op \in StatsAndIndicators /\ result.status = "ok") =>
        \A i \in 1..Len(result.rows) :
            LET x == NotesBehind(i)
            IN (Len(x) > 0 /\ DropNa(x) = <<>>) => result.rows[i].taux_reussite = Ratio(0, 1)

\* the statistics by department of a table with a department of two records
\* without note and a department with a note
C18_Witness ==
    /\ op = "stats_departement"
    /\ Len(result.rows) = 2
    /\ \E i, j \in 1..2 :
          /\ Len(NotesBehind(i)) = 2 /\ DropNa(NotesBehind(i)) = <<>>
          /\ result.rows[i].taux_reussite = Ratio(0, 1)
          /\ result.rows[j].taux_reussite = Ratio(100, 1)

\* ======================================================================
\* Properties of the means (checked under SpecApi)
\* ======================================================================
MeanOps == StatsOps \cup {"stats_genre"}

\* the mean a row of a statistics result reports
MeanOf(row) == IF "moyenne" \in DOMAIN row THEN row.moyenne ELSE row.mean

\* the notes of the records behind row i of a leaderboard: the requested
\* records of the row's entity
NotesOfEntity(i) ==
    NoteCol(SelectSeq(df, LAMBDA r :
        r \in Requested(op, arg) /\ KeyOf(r, EntityCols(op)) = KeyOf(result.rows[i], EntityCols(op))))

\* m is the mean of the non-null notes of x and lies between the least and
\* the greatest of them
MeanWithinRange(m, x) ==
    LET v == DropNa(x)
    IN Len(v) > 0 =>
         /\ ~IsNaN(m)
         /\ m.num * Len(v) = Sum(v) * m.den
         /\ \E lo, hi \in Range(v) :
               /\ \A y \in Range(v) : lo <= y /\ y <= hi
               /\ lo * m.den <= m.num /\ m.num <= hi * m.den

\* C17: the mean of every group with a non-null note is the mean of its
\* non-null notes alone and lies between their minimum and their maximum,
\* which are the reported min and max where the result has them; the same
\* holds for the score of every row of a leaderboard
C17_MeanOfNonNullWithinRange ==
    /\ (op \in MeanOps /\ result.status = "ok") =>
          \A i \in 1..Len(result.rows) :
              LET row == result.rows[i]
                  x == NotesBehind(i)
              IN /\ MeanWithinRange(MeanOf(row), x)
                 /\ (Len(DropNa(x)) > 0 /\ "min" \in DOMAIN row) =>
                       /\ \A y \in Range(DropNa(x)) :
                             row.min.num <= y * row.min.den /\ y * row.max.den <= row.max.num
                       /\ ~Gt(row.min, MeanOf(row)) /\ ~Gt(MeanOf(row), row.max)
    /\ IsLeaderboard =>
          \A i \in 1..Len(result.rows) : MeanWithinRange(result.rows[i].moyenne, NotesOfEntity(i))

\* the global statistics of the notes 12, missing and 8: mean 10 between 8
\* and 12
C17_Witness ==
    /\ op = "stats_globales"
    /\ Len(df) = 3
    /\ {df[i].note : i \in 1..3} = {12, NoNote, 8}
    /\ result.rows[1].moyenne = Ratio(10, 1)
    /\ result.rows[1].min = Ratio(8, 1)
    /\ result.rows[1].max = Ratio(12, 1)

\* ======================================================================
\* Properties of request sequences (checked under SpecApi and SpecRepeat)
\* ======================================================================
\* C14: no request changes the module-level table: after any sequence of
\* requests it has the records, columns and values it had after loading
C14_QueriesLeaveTable == [][df' = df]_vars

\* a leaderboard by department answered with a filter and a limit that both
\* leave records of the table out
C14_Witness ==
    /\ op = "classement_departement" /\ arg.f1 = 1 /\ arg.limit = 1
    /\ result.status = "ok" /\ Len(result.rows) = 1
    /\ \E r \in Range(df) : r.departement = 2
    /\ Cardinality({r.student_id : r \in Range(df)}) > 1

C16_ConcurrentAsAlone ==
    \A t \in Threads :
        /\ threads[t].pc = "transform" => threads[t].data = df
        /\ threads[t].pc = "answer" => threads[t].data = Transformed(threads[t].req, df)
        /\ threads[t].pc = "done" => <<threads[t].req, threads[t].result>> \in alone

\* a leaderboard request has answered while an age-band request, begun
\* before that answer, holds its copy with the band column
C16_Witness ==
    \E t, u \in Threads :
        /\ threads[t].pc = "done" /\ threads[t].req.op = "classement_filiere_niveau"
        /\ threads[t].req.arg.f1 = 2 /\ Len(threads[t].result.rows) = 1
        /\ threads[u].pc = "answer" /\ threads[u].req.op = "stats_tranche_age"
        /\ Len(df) = 3

\* ======================================================================
\* Properties of the upload path (checked under SpecUpload)
\* ======================================================================
\* the stages of a run of the upload path, in the order of the script
UploadStages == <<"start", "loaded", "mapped", "renamed", "required", "numeric", "analysis">>

\* the stage is stage s or a later one
Reached(s) == \E i, j \in 1..Len(UploadStages) : UploadStages[i] = s /\ UploadStages[j] = pc /\ i <= j

FileLoaded == file.readable /\ file.rows # <<>> /\ frame.rows # <<>>

AllMapped == \A k \in Range(ExpectedColumns) : mapping[k] \in Range(file.cols)

RequiredExist == \A k \in Range(ExpectedColumns) : ColumnsNamed(frame, k) # {}

NoteNumeric ==
    /\ Cardinality(ColumnsNamed(frame, "note")) = 1
    /\ \E i \in 1..Len(frame.rows) : Column(frame, "note")[i].kind = "number"

ChecksPassed ==
    /\ Reached("loaded") => FileLoaded
    /\ Reached("mapped") => AllMapped
    /\ Reached("required") => RequiredExist
    /\ Reached("numeric") => NoteNumeric

\* C19: a run of the upload path passes its stages in order, one at a time,
\* or stops; a stage is reached only with its check passed (the file loaded
\* and has rows, all 11 fields mapped, every required column in the renamed
\* frame, a numeric score), the indicators are computed only at the
\* analysis stage, and a stopped run does nothing more
C19_ChecksBeforeAnalysis ==
    [][/\ pc' # pc =>
            \/ pc' = "stopped"
            \/ \E i \in 1..(Len(UploadStages) - 1) : pc = UploadStages[i] /\ pc' = UploadStages[i + 1]
       /\ ChecksPassed'
       /\ op' # "idle" => pc = "analysis" /\ pc' = "analysis"
       /\ pc # "stopped"]_vars

\* the indicators of a file whose scores were selected from a column of
\* another name, one of them a text
C19_Witness ==
    /\ pc = "analysis" /\ op = "tab_global"
    /\ mapping["note"] = "colA"
    /\ Len(df) = 2 /\ df[1].note = NoNote /\ df[2].note = 8
    /\ result.rows[1].nombre_notes = 2

\* ======================================================================
\* Properties of the ingestion of scores (checked under SpecLoad)
\* ======================================================================
\* the table handed to the analysis: the table of the service, of a script
\* or of the dashboard's built-in dataset, or the uploaded frame once its
\* score column has been checked
IngestedTable ==
    IF file.uploaded THEN (IF pc \in {"numeric", "analysis"} THEN ToRecords(frame) ELSE <<>>)
    ELSE (IF pc \in {"serving", "script", "analysis"} THEN df ELSE <<>>)

Ingested ==
    IF file.uploaded THEN pc \in {"numeric", "analysis"}
    ELSE pc \in {"serving", "script", "analysis"}

\* the score cell of row i of the file
ScoreText(i) == file.rows[i][11]

\* C20: every ingested table, from the built-in file or from an upload, has
\* one record per row of the file, with the number of a numeric score and
\* null for a missing or unparsable one
C20_UnparsableScoreBecomesNull ==
    Ingested =>
        /\ Len(IngestedTable) = Len(file.rows)
        /\ \A i \in 1..Len(IngestedTable) :
              IngestedTable[i].note =
                  (IF ScoreText(i).kind = "number" THEN ScoreText(i).v[1] ELSE NoNote)

\* ======================================================================
\* Properties of the reference lists (checked under SpecApi)
\* ======================================================================
ReferenceOps == {"get_departements", "get_filieres", "get_enseignants", "get_ues"}

\* the column a reference list reads and the column its filter compares
ReferenceColumn(o) ==
    CASE o = "get_departements" -> "departement"
      [] o = "get_filieres" -> "filiere"
      [] o = "get_enseignants" -> "enseignant"
      [] o = "get_ues" -> "ue"

ReferenceFilter(o) == IF o = "get_ues" THEN "niveau" ELSE "departement"

\* the cells of the list's column among the records the filter keeps
ReferenceValues ==
    {df[i][ReferenceColumn(op)] :
        i \in {j \in 1..Len(df) : arg.f1 = Null \/ df[j][ReferenceFilter(op)] = arg.f1}}

\* C21: a reference list never fails, is strictly ascending (sorted, no
\* duplicate) and holds the values of its column among the records that
\* match the filter (all records without filter), every non-null one
C21_ReferenceListSortedDistinct ==
    op \in ReferenceOps =>
        /\ result.status = "ok"
        /\ \A i \in 1..(Len(result.rows) - 1) : result.rows[i] < result.rows[i + 1]
        /\ ReferenceValues \ {Null} \subseteq Range(result.rows)
        /\ Range(result.rows) \subseteq ReferenceValues

\* ======================================================================
\* Properties of the partitions of a leaderboard (checked under SpecPartition)
\* ======================================================================
PartitionedOps == {"classement_departement", "classement_filiere_niveau", "classement_ue"}

\* the requested records of partition p, in table order
RecordsOfPartition(p) ==
    SelectSeq(df, LAMBDA r : r \in Requested(op, arg) /\ KeyOf(r, PartitionCols(op)) = p)

\* the leaderboard of the records of partition p alone
PartitionAlone(p) == RankedFrame(RecordsOfPartition(p), EntityCols(op), PartitionCols(op))

\* 1 + the number of distinct means of rows that are greater than row's
OnePlusGreater(rows, row) ==
    1 + Cardinality({r.moyenne : r \in {x \in Range(rows) : Gt(x.moyenne, row.moyenne)}})

\* C22: in a partitioned leaderboard the rank of an entity is 1 + the number
\* of distinct greater means of its partition, and it is the rank the entity
\* has in the leaderboard of the records of its partition alone, whatever
\* the records of the other partitions are
C22_RankWithinPartitionOnly ==
    op \in PartitionedOps =>
        \A p \in {KeyOf(r, PartitionCols(op)) : r \in Requested(op, arg)} :
            (~HasNull(p) /\ PartitionAlone(p).status = "ok") =>
                /\ result.status = "ok"
                /\ \A row \in Range(RowsOfPartition(result.rows, p)) :
                      /\ row \in Range(PartitionAlone(p).rows)
                      /\ row.rang = OnePlusGreater(PartitionAlone(p).rows, row)
                /\ arg.limit = Null =>
                      Range(PartitionAlone(p).rows) \subseteq Range(result.rows)

\* ======================================================================
\* Properties of the three-student table (checked under SpecScenario)
\* ======================================================================
\* the tied students of the table
Leaders == {df[i].student_id : i \in {j \in 1..Len(df) : df[j].note = 15}}

\* C23: for three students with means 12, 15 and 15 the general leaderboard
\* is two rows of mean 15 and rank 1, then one row of mean 12 and rank 2;
\* with limit 1 (and for the top 1) the single row has mean 15 and rank 1
\* and is the tied student with the smaller student_id, whatever the order
\* of the records in the table
C23_TieCutBySmallerId ==
    (op \in {"classement_general", "classement_top"} /\ arg.limit \in {Null, 1}) =>
        /\ result.status = "ok"
        /\ arg.limit = Null =>
              /\ Len(result.rows) = 3
              /\ \A i \in 1..2 :
                    result.rows[i].moyenne = Ratio(15, 1) /\ result.rows[i].rang = 1
              /\ result.rows[3].moyenne = Ratio(12, 1) /\ result.rows[3].rang = 2
        /\ arg.limit = 1 =>
              /\ Len(result.rows) = 1
              /\ result.rows[1].moyenne = Ratio(15, 1) /\ result.rows[1].rang = 1
              /\ \A s \in Leaders : result.rows[1].student_id <= s

\* ======================================================================
\* Properties of the students of the general leaderboard (checked under SpecRank)
\* ======================================================================
\* C24: in the general leaderboard without limit every student_id of the
\* table has exactly one row
C24_OneRowPerStudent ==
    (op = "classement_general" /\ arg.limit = Null /\ result.status = "ok") =>
        \A s \in {df[i].student_id : i \in 1..Len(df)} :
            Cardinality({i \in 1..Len(result.rows) : result.rows[i].student_id = s}) = 1

\* ======================================================================
\* Properties of the failures of the leaderboards (checked under SpecRank)
\* ======================================================================
\* C25: every leaderboard request returns a result, and every row of it
\* carries a rank of at least 1
C25_LeaderboardNeverRaises ==
    op \in LeaderboardOps =>
        /\ result.status = "ok"
        /\ \A i \in 1..Len(result.rows) : result.rows[i].rang >= 1

\* ======================================================================
\* Properties of filtered leaderboards (checked under SpecPartition)
\* ======================================================================
\* the row belongs to the partitions the filters of the request select
MatchesFilter(row) ==
    CASE op = "classement_departement" -> row.departement = arg.f1
      [] op = "classement_filiere_niveau" ->
            (arg.f1 = Null \/ row.filiere = arg.f1) /\ (arg.f2 = Null \/ row.niveau = arg.f2)
      [] op = "classement_ue" -> row.ue = arg.f1

\* the same leaderboard without filter, with the same limit
Unfiltered == Answer(op, Args(Null, Null, arg.limit))

\* C26: a partitioned leaderboard with a filter on a value present in the
\* table returns what the unfiltered leaderboard returns for the selected
\* partitions: the same rows, with their ranks and in their order
C26_FilterCommutesWithRanking ==
    (op \in PartitionedOps /\ (arg.f1 # Null \/ arg.f2 # Null) /\ Requested(op, arg) # {}) =>
        result = [status |-> Unfiltered.status,
                  rows |-> SelectSeq(Unfiltered.rows, MatchesFilter)]

\* ======================================================================
\* Properties of the duplicated leaderboards (checked under SpecDuplicates)
\* ======================================================================
\* the rank each student row of a general leaderboard has
RanksOfStudents(r) == {<<KeyOf(row, GeneralCols), row.rang>> : row \in Range(r.rows)}

\* C27: the leaderboards outside the API agree with the API's on every
\* table: the general ones and classement_etudiants give the same rank to the
\* same student, the per-department ones the same rank to the same
\* (department, student), and the report's first n rows per department are
\* the API's per-department leaderboard with limit n
C27_DuplicatesAgree ==
    /\ op = "script_classement_general" =>
          /\ result.status = classement_general(Null).status
          /\ RanksOfStudents(result) = RanksOfStudents(classement_general(Null))
    /\ op = "classement_etudiants" =>
          /\ result.status = classement_general(Null).status
          /\ RanksOfStudents(result) = RanksOfStudents(classement_general(Null))
    /\ op = "classement_par_departement" =>
          /\ result.status = classement_departement(Null, Null).status
          /\ Range(result.rows) = Range(classement_departement(Null, Null).rows)
    /\ op = "report_top_departement" => result = classement_departement(Null, arg.limit)

\* ======================================================================
\* Properties of the sidebar filters (checked under SpecFilter)
\* ======================================================================
\* the row has, in every column with a selected value, that value
MatchesSelection(row) ==
    \A c \in Range(FilterColumns) :
        arg[c] # Tous => \E j \in ColumnsNamed(frame, c) : row[j] = arg[c]

SourceColumn(k) == Column(read_csv(file), mapping[k])

\* C29: in a run whose mapping passed every validation, each expected name
\* is the name of exactly one column, the column nom holds the cells of the
\* source column selected for it and the column note the numeric values of
\* the cells of the source column selected for it
C29_MappedColumnsHoldSource ==
    pc = "analysis" =>
        /\ \A k \in Range(ExpectedColumns) : Cardinality(ColumnsNamed(frame, k)) = 1
        /\ Column(frame, "nom") = SourceColumn("nom")
        /\ Column(frame, "note")
              = [i \in 1..Len(file.rows) |-> to_numeric(SourceColumn("note")[i])]

\* ======================================================================
\* Properties of the per-student detail (checked under SpecEtudiant)
\* ======================================================================
\* C30: in the detail of a found student the total number of grades is the
\* sum of the per-course counts, and the per-course breakdown has exactly
\* one row for every course in which the student has a record
C30_TotalIsSumOfCourseCounts ==
    (op = "get_etudiant" /\ result.status = "ok") =>
        LET detail == result.rows[1]
            courses == {r.ue : r \in {x \in Range(df) : x.student_id = arg.f1}} \ {Null}
        IN /\ detail.nombre_total_notes
                = Sum([i \in 1..Len(detail.notes_par_ue) |-> detail.notes_par_ue[i].nombre_notes])
           /\ \A u \in courses :
                 Cardinality({i \in 1..Len(detail.notes_par_ue) :
                                detail.notes_par_ue[i].ue = u}) = 1
           /\ \A i \in 1..Len(detail.notes_par_ue) : detail.notes_par_ue[i].ue \in courses

====
